---- MODULE Spec2Model ----
(***************************************************************************)
(* Model of the PA recovery-specialist scraper (pa_recovery_pyqt5.py and   *)
(* pa_recovery_standalone.py): the report month window, the page scraper,  *)
(* the merge / filter / sort pipeline and the multi-category worker.       *)
(*                                                                         *)
(* Text is modelled as a sequence of one-character strings, so that        *)
(* strip(), lower(), replace() and substring search are computed.          *)
(***************************************************************************)
EXTENDS Integers, Sequences, FiniteSets, TLC

VARIABLES
    \* ---- ReportWindow.build_report_summary ----
    now,            \* datetime.now(): [year, month, day]
    months,         \* the list `months` built by build_report_summary
    rpc,            \* "new" before build_report_summary ran, "built" after it
                    \* returned, "raised" after it raised
    report_summary, \* the dict build_report_summary returned
    \* ---- scrape_website (one call) ----
    spc,            \* "idle" | "loop" (inside the for loop) | "ret" (returned)
    cred_tag,       \* the category being scraped
    total_pages,    \* argument total_pages
    page,           \* next value of the loop variable `page`
    all_data,       \* the list all_data (emitted records, in emission order)
    scrape_index,   \* the counter scrape_index
    output_lines,   \* log lines appended by scrape_website
    requested,      \* history: page indices requested so far, in order
    fetched,        \* history: the outcome of each request, in order
    slept,          \* history: time.sleep(1) ran since the last request
    \* ---- RecoverySpecialistApp: the scrape worker thread ----
    wpc,            \* position of scrape_worker ("idle": no worker running)
    idx,            \* the loop variable idx of `for idx, cred in enumerate(..)`, from 1
    city_county_df, \* the reference table returned by get_city_county_df
    w_data,         \* the worker's local dict all_cred_data
    w_county,       \* the worker's local dict all_cred_county_data
    cooled,         \* history: time.sleep(10) ran since the last category scrape
    cat_requests,   \* history: requests made to the listing site in this run
    ref_state,      \* history: "none" | "empty" | "table": what the loader returned
    raised_at,      \* history: the position at which this run ended early ("none")
    done_q,         \* emitted, not yet handled `done` signals
    \* ---- RecoverySpecialistApp: the UI thread and the disk ----
    run,            \* number of scrape runs started
    btn_disabled,   \* get_data_btn is disabled
    ui_data,        \* self.all_cred_data
    all_excel_path, \* self.all_excel_path
    county_excel_path, \* self.county_excel_path
    files,          \* the files on disk
    files0,         \* history: the files on disk when the current run started
    loaded          \* what load_cache returned: "pending" | "true" | "false"

windowVars == <<now, months, rpc, report_summary>>
scrapeVars == <<spc, cred_tag, total_pages, page, all_data, scrape_index,
                output_lines, requested, fetched, slept>>
workerVars == <<wpc, idx, city_county_df, w_data, w_county, cooled,
                cat_requests, ref_state, raised_at, done_q>>
uiVars == <<run, btn_disabled, ui_data, all_excel_path, county_excel_path,
            files, files0, loaded>>
vars == <<windowVars, scrapeVars, workerVars, uiVars>>

(***************************************************************************)
(* Bounds of the model.                                                    *)
(***************************************************************************)
BaseYear == 2023
NumYears == 3
MaxPages == 3
MaxRunPages == 1
MaxRuns == 1
MaxClears == 1

Years == BaseYear..(BaseYear + NumYears - 1)
Days  == {1, 15}

(***************************************************************************)
(* Text helpers.                                                           *)
(***************************************************************************)
\* str.lower() on the model's alphabet
LowerChar(c) ==
    CASE c = "A" -> "a"
      [] c = "B" -> "b"
      [] c = "P" -> "p"
      [] c = "C" -> "c"
      [] c = "R" -> "r"
      [] c = "S" -> "s"
      [] c = "F" -> "f"
      [] OTHER   -> c

Lower(s) == [i \in 1..Len(s) |-> LowerChar(s[i])]

IsSpace(c) == c = " "

RECURSIVE LStrip(_)
LStrip(s) == IF s # <<>> /\ IsSpace(Head(s)) THEN LStrip(Tail(s)) ELSE s

RECURSIVE RStrip(_)
RStrip(s) ==
    IF s # <<>> /\ IsSpace(s[Len(s)]) THEN RStrip(SubSeq(s, 1, Len(s) - 1)) ELSE s

\* str.strip()
Strip(s) == RStrip(LStrip(s))

\* s.startswith(p)
StartsWith(s, p) == Len(s) >= Len(p) /\ SubSeq(s, 1, Len(p)) = p

\* `p in s` for strings (substring, case-sensitive)
Contains(s, p) ==
    \E i \in 1..(Len(s) - Len(p) + 1) : SubSeq(s, i, i + Len(p) - 1) = p

\* s.replace(old, "") : removes every non-overlapping occurrence, left to right
RECURSIVE RemoveAll(_, _)
RemoveAll(s, old) ==
    IF s = <<>> THEN <<>>
    ELSE IF old # <<>> /\ StartsWith(s, old)
         THEN RemoveAll(SubSeq(s, Len(old) + 1, Len(s)), old)
         ELSE <<Head(s)>> \o RemoveAll(Tail(s), old)

CommaPA == <<",", " ", "P", "A">>

(***************************************************************************)
(* ReportWindow.build_report_summary: the month window.                    *)
(***************************************************************************)
\* dt -= relativedelta(months=1) on a first-of-month date <<year, month>>
PrevMonth(dt) == IF dt[2] = 1 THEN <<dt[1] - 1, 12>> ELSE <<dt[1], dt[2] - 1>>

\* dt >= first_month for first-of-month dates
DateGE(a, b) == a[1] > b[1] \/ (a[1] = b[1] /\ a[2] >= b[2])

\* a variant that starts the window at the most recent July 1
FirstMonth_Recent(n) == IF n.month >= 7 THEN <<n.year, 7>> ELSE <<n.year - 1, 7>>

\* first_month = datetime(now.year-1, 7, 1) if now.month >= 7
\*               else datetime(now.year-2, 7, 1)
FirstMonth(n) == IF n.month >= 7 THEN <<n.year - 1, 7>> ELSE <<n.year - 2, 7>>

\* while dt >= first_month: months.append(dt); dt -= relativedelta(months=1)
RECURSIVE MonthsLoop(_, _)
MonthsLoop(dt, first) ==
    IF DateGE(dt, first) THEN <<dt>> \o MonthsLoop(PrevMonth(dt), first) ELSE <<>>

WindowMonths(n) == MonthsLoop(<<n.year, n.month>>, FirstMonth(n))

InitWindow ==
    /\ now \in [year : Years, month : 1..12, day : Days]
    /\ months = <<>>
    /\ rpc = "new"
    /\ report_summary = "None"

(***************************************************************************)
(* The listing pages returned by the origin server.                        *)
(***************************************************************************)
sCRS  == <<"C", "R", "S">>
sCFRS == <<"C", "F", "R", "S">>
sCRSS == <<"C", "R", "S", "S">>
sOther == <<"C", "P", "S">>
sLowCrs == <<"c", "r", "s">>

\* CREDENTIALS = ["CRS", "CFRS", "CRSS"]
CREDENTIALS == <<sCRS, sCFRS, sCRSS>>

\* the text of a date cell as the site prints it, MM/DD/YYYY
Digits == <<"0", "1", "2", "3", "4", "5", "6", "7", "8", "9">>
IsDigit(c) == \E d \in 1..Len(Digits) : Digits[d] = c
DigitVal(c) == (CHOOSE d \in 1..Len(Digits) : Digits[d] = c) - 1
TwoDigits(n) == <<Digits[(n \div 10) + 1], Digits[(n % 10) + 1]>>
DateText(mm, dd, yyyy) ==
    TwoDigits(mm) \o <<"/">> \o TwoDigits(dd) \o <<"/">>
        \o TwoDigits(yyyy \div 100) \o TwoDigits(yyyy % 100)

\* a date cell that holds no date
BadDate == <<"b", "a", "d">>

\* a row of the nested credential table: ncells <td> cells and their texts
Cert(n, c, num, iss, ex, st) ==
    [ncells |-> n, credential |-> c, number |-> num, issue |-> iss,
     expire |-> ex, status |-> st]

\* a row of the results table: ncols <td> cells, name text, location text,
\* and the nested credential table if cols[2] has one
Subject(n, nm, loc, has, cs) ==
    [ncols |-> n, name |-> nm, city |-> loc, hasCert |-> has, certs |-> cs]

CityAb      == <<"A", "b", ",", " ", "P", "A">>
CityAbUpper == <<" ", "A", "B", " ", ",", " ", "P", "A", " ">>
CityBa      == <<"b", "a">>
CityCc      == <<"C", "c", ",", " ", "P", "A">>

PageA == << Subject(3, "Ann", CityAb, TRUE,
                    << Cert(5, sCRS, "N1", DateText(7, 15, 2023), DateText(7, 15, 2025), "Active") >>) >>
PageB == << Subject(2, "Short", CityAb, TRUE,
                    << Cert(5, sCRS, "N2", DateText(1, 1, 2024), DateText(1, 1, 2026), "Active") >>),
            Subject(3, "Bob", CityBa, FALSE, << >>),
            Subject(3, "Cy", CityAbUpper, TRUE,
                    << Cert(4, sCRS, "N3", DateText(2, 1, 2024), DateText(2, 1, 2026), "Active"),
                       Cert(5, <<" ">> \o sCRSS, "N4", BadDate, DateText(6, 30, 2024), "Expired") >>) >>
PageC == << >>
PageD == << Subject(4, "Dee", CityCc, TRUE,
                    << Cert(5, sCFRS, "N5", DateText(8, 1, 2024), << >>, "Active"),
                       Cert(5, sLowCrs, "N6", DateText(3, 10, 2024), DateText(3, 10, 2026), "Active") >>),
            Subject(3, "Eve", CityBa, TRUE,
                    << Cert(5, sCRSS, "N7", DateText(12, 31, 2023), DateText(12, 31, 2025), "Active"),
                       Cert(5, sOther, "N8", DateText(11, 30, 2023), DateText(11, 30, 2025), "Active") >>) >>

Tables == {PageA, PageB, PageC, PageD}

\* what one requests.get(url) of a listing page can give
Outcomes ==
    {[kind |-> "fail", rows |-> << >>], [kind |-> "notable", rows |-> << >>]}
    \cup {[kind |-> "table", rows |-> t] : t \in Tables}

(***************************************************************************)
(* scrape_website.                                                         *)
(***************************************************************************)
\* the dict appended to all_data
Record(si, nm, cty, c) ==
    [SCRAPE_ORDER |-> si, NAME |-> nm, CITY |-> cty,
     CREDENTIAL |-> Strip(c.credential), NUMBER |-> c.number,
     ISSUE_DATE |-> c.issue, EXP_DATE |-> c.expire, STATUS |-> c.status]

\* city_raw = cols[1].get_text(strip=True).replace(", PA", "").strip().lower()
CityRaw(text) == Lower(Strip(RemoveAll(Strip(text), CommaPA)))

\* scrape_index += 1 after each appended record
BumpIndex(si) == si + 1

\* for cert_row in cert_rows: if len(cert_cols) == 5: append, scrape_index += 1
RECURSIVE CertRecords(_, _, _, _)
CertRecords(certs, nm, cty, si) ==
    IF certs = << >> THEN << >>
    ELSE IF Head(certs).ncells = 5
         THEN <<Record(si, nm, cty, Head(certs))>>
              \o CertRecords(Tail(certs), nm, cty, BumpIndex(si))
         ELSE CertRecords(Tail(certs), nm, cty, si)

\* for row in rows: if len(cols) < 3: continue; ... if cert_table: ...
RECURSIVE RowRecords(_, _)
RowRecords(rows, si) ==
    IF rows = << >> THEN << >>
    ELSE LET r    == Head(rows)
             recs == IF r.ncols >= 3 /\ r.hasCert
                     THEN CertRecords(r.certs, r.name, CityRaw(r.city), si)
                     ELSE << >>
         IN  recs \o RowRecords(Tail(rows), si + Len(recs))

\* a variant whose counter restarts on every page
PageRecords_Reset(o, si) == IF o.kind = "table" THEN RowRecords(o.rows, 0) ELSE << >>

\* the records one loop iteration appends, numbered from the running counter
PageRecords(o, si) == IF o.kind = "table" THEN RowRecords(o.rows, si) ELSE << >>

\* a variant that keeps only the latest page's records
AppendAll_Replace(data, recs) == recs

\* all_data.append(..) for each record of the page
AppendAll(data, recs) == data \o recs

\* the lines one loop iteration appends to output_lines
PageLog(tag, p, tp, o) ==
    << <<"Scraping", tag, p + 1, tp>> >>
    \o (IF o.kind = "fail" THEN << <<"Failed", tag, p>> >> ELSE << >>)

\* a variant whose failed request ends the loop (`break` for `continue`)
PageAfter_Break(p, tp, o) == IF o.kind = "fail" THEN tp ELSE p + 1

\* the value of `page` in the iteration after this one (for page in range(..))
PageAfter(p, tp, o) == p + 1

\* time.sleep(1) is the last statement of the loop body: the two `continue`
\* statements (failed request, table not found) skip it
SleptAfter(o) == o.kind = "table"

\* one iteration of `for page in range(total_pages)` with request outcome o
ScrapePage(o) ==
    /\ spc = "loop"
    /\ page < total_pages
    /\ requested' = Append(requested, page)
    /\ fetched' = Append(fetched, o)
    /\ output_lines' = output_lines \o PageLog(cred_tag, page, total_pages, o)
    /\ all_data' = AppendAll(all_data, PageRecords(o, scrape_index))
    /\ scrape_index' = scrape_index + Len(PageRecords(o, scrape_index))
    /\ slept' = SleptAfter(o)
    /\ page' = PageAfter(page, total_pages, o)
    /\ UNCHANGED <<spc, cred_tag, total_pages>>

\* return pd.DataFrame(all_data)
ScrapeReturn ==
    /\ spc = "loop"
    /\ page >= total_pages
    /\ spc' = "ret"
    /\ UNCHANGED <<cred_tag, total_pages, page, all_data, scrape_index,
                   output_lines, requested, fetched, slept>>

\* scrape_website(base_url, total_pages, output_lines, cred_tag=tag) is entered
ScrapeEntry(tag, tp) ==
    /\ spc = "loop"
    /\ cred_tag = tag
    /\ total_pages = tp
    /\ page = 0
    /\ all_data = << >>
    /\ scrape_index = 0
    /\ output_lines = << >>
    /\ requested = << >>
    /\ fetched = << >>
    /\ slept = FALSE

ScrapeIdle ==
    /\ spc = "idle"
    /\ cred_tag = sCRS
    /\ total_pages = 0
    /\ page = 0
    /\ all_data = << >>
    /\ scrape_index = 0
    /\ output_lines = << >>
    /\ requested = << >>
    /\ fetched = << >>
    /\ slept = FALSE

WindowIdle ==
    /\ now = [year |-> BaseYear, month |-> 1, day |-> 1]
    /\ months = << >>
    /\ rpc = "new"
    /\ report_summary = "None"

(***************************************************************************)
(* The reference table and the merge / filter / sort steps of the worker.  *)
(***************************************************************************)
\* SELECTED_COUNTIES
SELECTED_COUNTIES ==
    {"Philadelphia", "Berks", "Bucks", "Chester",
     "Delaware", "Lancaster", "Montgomery", "Schuylkill"}

\* a missing value (NaN) of a merged column
NaN == "<NaN>"

RefRow(c, k) == [City |-> c, County |-> k]

\* bodies of the reference CSV as the server can send them
CsvGood  == << RefRow(<<" ", "A", "b">>, "Berks"), RefRow(<<"c", "C", " ">>, "Erie") >>
CsvDup   == << RefRow(<<"A", "B">>, "Berks"), RefRow(<<"b", "a">>, "Bucks"),
               RefRow(<<"a", "b", " ">>, "Berks") >>
CsvSplit == << RefRow(<<"a", "b">>, "Bucks"), RefRow(<<"A", "b">>, "Berks"),
               RefRow(<<"b", "a">>, NaN) >>
CsvCase  == << RefRow(<<"a", "b">>, "Berks"), RefRow(<<"A", "B", " ">>, "berks") >>
CsvEmpty == << >>

\* what requests.get(COUNTY_URL) can give
RefResponses ==
    {[ok |-> FALSE, rows |-> << >>]}
    \cup {[ok |-> TRUE, rows |-> t] : t \in {CsvGood, CsvDup, CsvSplit, CsvCase, CsvEmpty}}

\* df['City'] = df['City'].str.strip().str.lower()
NormalizeKey(text) == Lower(Strip(text))

\* get_city_county_df: the table with normalized City, or an empty frame
get_city_county_df(resp) ==
    IF resp.ok
    THEN [i \in 1..Len(resp.rows) |->
             [resp.rows[i] EXCEPT !.City = NormalizeKey(resp.rows[i].City)]]
    ELSE << >>

\* df['CITY'] = df['CITY'].str.strip().str.lower()
NormalizeCity(df) ==
    [i \in 1..Len(df) |-> [df[i] EXCEPT !.CITY = Lower(Strip(df[i].CITY))]]

\* a merged row: the scraped columns plus County (the City column is dropped)
Merged(rec, k) ==
    [SCRAPE_ORDER |-> rec.SCRAPE_ORDER, NAME |-> rec.NAME, CITY |-> rec.CITY,
     CREDENTIAL |-> rec.CREDENTIAL, NUMBER |-> rec.NUMBER,
     ISSUE_DATE |-> rec.ISSUE_DATE, EXP_DATE |-> rec.EXP_DATE,
     STATUS |-> rec.STATUS, County |-> k]

MatchesOf(rec, ref) == SelectSeq(ref, LAMBDA e : e.City = rec.CITY)

\* a variant that joins inner: a row without a match is dropped
JoinRow_Inner(rec, ref) ==
    [i \in 1..Len(MatchesOf(rec, ref)) |-> Merged(rec, MatchesOf(rec, ref)[i].County)]

\* the rows a left join gives for one left row: one per matching right row,
\* in the right table's order, or one row with a missing County
JoinRow(rec, ref) ==
    IF MatchesOf(rec, ref) = << >>
    THEN << Merged(rec, NaN) >>
    ELSE [i \in 1..Len(MatchesOf(rec, ref)) |-> Merged(rec, MatchesOf(rec, ref)[i].County)]

\* df.merge(city_county_df, how='left', left_on='CITY', right_on='City')
RECURSIVE LeftMerge(_, _)
LeftMerge(df, ref) ==
    IF df = << >> THEN << >>
    ELSE JoinRow(Head(df), ref) \o LeftMerge(Tail(df), ref)

\* a variant that keeps only the exact code
FilterCredential_Exact(df, cred) == SelectSeq(df, LAMBDA r : r.CREDENTIAL = cred)

\* df[df['CREDENTIAL'].str.contains(cred, na=False)]
FilterCredential(df, cred) == SelectSeq(df, LAMBDA r : Contains(r.CREDENTIAL, cred))

RemoveAt(s, i) == SubSeq(s, 1, i - 1) \o SubSeq(s, i + 1, Len(s))

\* df.sort_values(by='SCRAPE ORDER') with the default kind='quicksort', which
\* is not stable: rows with equal keys may come out in any order
RECURSIVE SortOutcomes(_)
SortOutcomes(df) ==
    IF df = << >> THEN {<< >>}
    ELSE UNION {{<<df[i]>> \o t : t \in SortOutcomes(RemoveAt(df, i))} :
                 i \in {j \in 1..Len(df) :
                          \A m \in 1..Len(df) : df[j].SCRAPE_ORDER <= df[m].SCRAPE_ORDER}}

\* a variant that keeps every record that has a county
CountyFilter_AnyCounty(df) == SelectSeq(df, LAMBDA r : r.County # NaN)

\* county_df = df[df['County'].isin(SELECTED_COUNTIES)]
CountyFilter(df) == SelectSeq(df, LAMBDA r : r.County \in SELECTED_COUNTIES)

\* lines 643-647: normalize, merge, drop City, filter by credential
MergeAndFilter(df, ref, cred) ==
    FilterCredential(LeftMerge(NormalizeCity(df), ref), cred)

(***************************************************************************)
(* get_total_pages.                                                        *)
(***************************************************************************)
FallbackPages == 98

\* str(n) for n >= 0
RECURSIVE IntText(_)
IntText(n) == IF n < 10 THEN <<Digits[n + 1]>> ELSE IntText(n \div 10) \o <<Digits[(n % 10) + 1]>>

\* the href of the pager's 'Go to last page' link for last page index n
PageParam == <<"p", "a", "g", "e", "=">>
Href(n) == <<"?">> \o PageParam \o IntText(n)

\* s.split(sep)[-1]: what follows the last occurrence of sep, s if there is none
SplitLast(s, sep) ==
    LET at == {i \in 1..(Len(s) - Len(sep) + 1) : SubSeq(s, i, i + Len(sep) - 1) = sep}
    IN  IF at = {} THEN s
        ELSE LET i == CHOOSE x \in at : \A y \in at : y <= x
             IN  SubSeq(s, i + Len(sep), Len(s))

\* the value of a sequence of digits
RECURSIVE DigitsVal(_)
DigitsVal(s) ==
    IF s = << >> THEN 0 ELSE 10 * DigitsVal(SubSeq(s, 1, Len(s) - 1)) + DigitVal(s[Len(s)])

\* int(s): surrounding whitespace is dropped, one sign is accepted, the rest
\* must be digits; ok is FALSE when int raises ValueError
PyInt(s) ==
    LET t == Strip(s)
        signed == t # << >> /\ t[1] \in {"+", "-"}
        body == IF signed THEN Tail(t) ELSE t
    IN  IF body # << >> /\ \A i \in 1..Len(body) : IsDigit(body[i])
        THEN [ok |-> TRUE,
              val |-> IF signed /\ t[1] = "-" THEN 0 - DigitsVal(body) ELSE DigitsVal(body)]
        ELSE [ok |-> FALSE, val |-> 0]

\* hrefs a pager can carry besides ?page=n: a further parameter after the
\* page, no page parameter, an empty one, a path before the query, a page
\* given twice, and negative values
OddHrefs ==
    {Href(2) \o <<"&", "x", "=", "1">>,
     <<"/", "l", "a", "s", "t">>,
     <<"?">> \o PageParam,
     <<"/", "r", "?">> \o PageParam \o IntText(11),
     Href(7) \o <<"&">> \o PageParam \o IntText(1),
     <<"?">> \o PageParam \o <<"-", "1">>,
     <<"?">> \o PageParam \o <<"-", "3">>,
     <<"?">> \o PageParam \o <<"+", "4", " ">>}

\* what requests.get(base_url) can give: the request fails, the page has no
\* 'Go to last page' link (or one without href), or the link has this href
TotalResponses ==
    {[kind |-> k, href |-> << >>] : k \in {"fail", "nolink"}}
    \cup {[kind |-> "link", href |-> Href(n)] : n \in 0..(MaxRunPages - 1)}
    \cup {[kind |-> "link", href |-> h] : h \in OddHrefs}

get_total_pages(resp) ==
    IF resp.kind = "link" /\ PyInt(SplitLast(resp.href, PageParam)).ok
    THEN PyInt(SplitLast(resp.href, PageParam)).val + 1
    ELSE FallbackPages

\* the lines get_total_pages appends to output_lines
TotalLog(resp) ==
    << <<"Determining">> >>
    \o (IF resp.kind = "fail" THEN << <<"Error">> >> ELSE << >>)

(***************************************************************************)
(* The disk and the application state.                                     *)
(***************************************************************************)
None == "None"

\* a dict {cred: df}: entry i is for CREDENTIALS[i]
NoEntry == [has |-> FALSE, rows |-> << >>]
EmptyDict == [i \in 1..Len(CREDENTIALS) |-> NoEntry]
IsEmptyDict(d) == \A i \in 1..Len(CREDENTIALS) : ~d[i].has
Put(d, i, df) == [d EXCEPT ![i] = [has |-> TRUE, rows |-> df]]

\* CACHE_PICKLE, CACHE_META, CACHE_ALL_EXCEL, CACHE_COUNTY_EXCEL and the two
\* files the worker writes before it moves them into the cache
CACHE_PICKLE == "cached_cred_data.pkl"
CACHE_META == "cache_metadata.txt"
CACHE_ALL_EXCEL == "cached_all_statewide.xlsx"
CACHE_COUNTY_EXCEL == "cached_selected_counties.xlsx"
\* a variant that writes the statewide workbook straight into the cache
\* a variant that restores the first category of the file only
read_pickle_First(b) ==
    [i \in 1..Len(CREDENTIALS) |->
        IF b # << >> /\ b[1].key = CREDENTIALS[i]
        THEN [has |-> TRUE, rows |-> b[1].frame] ELSE NoEntry]

\* pd.to_pickle(all_cred_data, CACHE_PICKLE): the content of the file is the
\* dict's items, key and frame, in insertion order (the category loop
\* inserts in the order of CREDENTIALS)
to_pickle(d) ==
    LET keys == SelectSeq([i \in 1..Len(CREDENTIALS) |-> i], LAMBDA i : d[i].has)
    IN  [n \in 1..Len(keys) |-> [key |-> CREDENTIALS[keys[n]], frame |-> d[keys[n]].rows]]

\* pd.read_pickle(CACHE_PICKLE): the dict rebuilt from the items of the file
read_pickle(b) ==
    [i \in 1..Len(CREDENTIALS) |->
        IF \E n \in 1..Len(b) : b[n].key = CREDENTIALS[i]
        THEN [has |-> TRUE,
              rows |-> b[CHOOSE n \in 1..Len(b) : b[n].key = CREDENTIALS[i]].frame]
        ELSE NoEntry]

ALL_EXCEL_InCache == "cached_all_statewide.xlsx"

ALL_EXCEL == "PA_recovery_specialists_all_statewide.xlsx"
COUNTY_EXCEL == "PA_recovery_specialists_selected_counties.xlsx"

CacheFiles == {CACHE_PICKLE, CACHE_META, CACHE_ALL_EXCEL, CACHE_COUNTY_EXCEL}
FileNames == CacheFiles \cup {ALL_EXCEL, COUNTY_EXCEL}

\* a file: written by run `by` (0: an earlier session), holding `body`;
\* valid is FALSE for a file that was opened for writing and never completed
NoFile == [exists |-> FALSE, by |-> 0, valid |-> FALSE, body |-> EmptyDict]
Written(r, d) == [exists |-> TRUE, by |-> r, valid |-> TRUE, body |-> d]
Torn(r) == [exists |-> TRUE, by |-> r, valid |-> FALSE, body |-> EmptyDict]

EmptyDisk == [f \in FileNames |-> NoFile]

\* the dataset an earlier session left in the cache
OldRow ==
    [SCRAPE_ORDER |-> 0, NAME |-> "Old", CITY |-> <<"a", "b">>, CREDENTIAL |-> sCRS,
     NUMBER |-> "N0", ISSUE_DATE |-> DateText(7, 1, 2022), EXP_DATE |-> DateText(7, 1, 2024),
     STATUS |-> "Active", County |-> "Berks"]
OldData == Put(EmptyDict, 1, <<OldRow>>)
OldCounty == OldData

CachedDisk ==
    [f \in FileNames |->
        CASE f = CACHE_PICKLE -> Written(0, to_pickle(OldData))
          [] f = CACHE_META -> Written(0, EmptyDict)
          [] f = CACHE_ALL_EXCEL -> Written(0, OldData)
          [] f = CACHE_COUNTY_EXCEL -> Written(0, OldCounty)
          [] OTHER -> NoFile]

WorkerIdle ==
    /\ wpc = "idle"
    /\ idx = 1
    /\ city_county_df = << >>
    /\ w_data = EmptyDict
    /\ w_county = EmptyDict
    /\ cooled = FALSE
    /\ cat_requests = 0
    /\ ref_state = "none"
    /\ raised_at = "none"
    /\ done_q = << >>

\* the application when no window was constructed (the other specifications)
AppIdle ==
    /\ WorkerIdle
    /\ run = 0
    /\ btn_disabled = FALSE
    /\ ui_data = EmptyDict
    /\ all_excel_path = None
    /\ county_excel_path = None
    /\ files = EmptyDisk
    /\ files0 = EmptyDisk
    /\ loaded = "false"

\* RecoverySpecialistApp.__init__ ending with load_cache(): nothing is
\* loaded from an empty disk, the cached entry is loaded from a full one
InitApp ==
    /\ WorkerIdle
    /\ run = 0
    /\ btn_disabled = FALSE
    /\ files \in {EmptyDisk, CachedDisk}
    /\ files0 = files
    /\ loaded = (IF files[CACHE_PICKLE].exists THEN "true" ELSE "false")
    /\ ui_data = (IF files[CACHE_PICKLE].exists THEN read_pickle(files[CACHE_PICKLE].body)
                  ELSE EmptyDict)
    /\ all_excel_path =
          (IF files[CACHE_PICKLE].exists /\ files[CACHE_ALL_EXCEL].exists
           THEN CACHE_ALL_EXCEL ELSE None)
    /\ county_excel_path =
          (IF files[CACHE_PICKLE].exists /\ files[CACHE_COUNTY_EXCEL].exists
           THEN CACHE_COUNTY_EXCEL ELSE None)

(***************************************************************************)
(* RecoverySpecialistApp.scrape_worker, one action per blocking step.      *)
(***************************************************************************)
\* the listing pages and reference bodies served during a multi-category run
RunOutcomes ==
    {[kind |-> "fail", rows |-> << >>], [kind |-> "table", rows |-> PageB]}

RunRefResponses ==
    {[ok |-> FALSE, rows |-> << >>], [ok |-> TRUE, rows |-> CsvGood],
     [ok |-> TRUE, rows |-> CsvDup]}

RunTotalResponses == {[kind |-> "link", href |-> Href(n)] : n \in 0..(MaxRunPages - 1)}

scrapeLocals == <<spc, cred_tag, total_pages, page, all_data, scrape_index,
                  requested, fetched, slept>>
workerLocals == <<idx, city_county_df, w_data, w_county, cooled>>

\* the worker thread ends: its local variables are gone
DropLocals ==
    /\ idx' = 1
    /\ city_county_df' = << >>
    /\ w_data' = EmptyDict
    /\ w_county' = EmptyDict
    /\ cooled' = FALSE
    /\ spc' = "idle"
    /\ cred_tag' = sCRS
    /\ total_pages' = 0
    /\ page' = 0
    /\ all_data' = << >>
    /\ scrape_index' = 0
    /\ requested' = << >>
    /\ fetched' = << >>
    /\ slept' = FALSE

\* a variant whose except clause logs and emits no done event
Raise_Silent ==
    /\ output_lines' = Append(output_lines, <<"Error">>)
    /\ done_q' = done_q
    /\ raised_at' = wpc
    /\ wpc' = "idle"
    /\ DropLocals

\* except Exception as e: line.emit(Error); done.emit((None, None))
Raise ==
    /\ output_lines' = Append(output_lines, <<"Error">>)
    /\ done_q' = Append(done_q, <<None, None>>)
    /\ raised_at' = wpc
    /\ wpc' = "idle"
    /\ DropLocals

\* a step of the worker that neither ends the thread nor logs
Proceed(next) ==
    /\ wpc' = next
    /\ UNCHANGED <<output_lines, done_q, raised_at, workerLocals, scrapeLocals>>

\* the position after the body of the category loop for index i
AfterCategory(i) == IF i < Len(CREDENTIALS) THEN "cat" ELSE "export1"

\* a variant without the emptiness test
RefUsable_Always(df) == TRUE

\* `if city_county_df.empty:` is false
RefUsable(df) == df # << >>

\* lines 616-628: load the reference table; an empty table ends the run
W_LoadRef(resp) ==
    /\ wpc = "start"
    /\ ref_state' = IF get_city_county_df(resp) = << >> THEN "empty" ELSE "table"
    /\ IF ~RefUsable(get_city_county_df(resp))
       THEN /\ output_lines' = output_lines \o
                  << <<"Start">>,
                     IF resp.ok THEN <<"CsvLoaded">> ELSE <<"CsvFailed">>,
                     <<"RefRequired">> >>
            /\ done_q' = Append(done_q, <<None, None>>)
            /\ raised_at' = wpc
            /\ wpc' = "idle"
            /\ DropLocals
       ELSE /\ output_lines' = output_lines \o << <<"Start">>, <<"CsvLoaded">> >>
            /\ city_county_df' = get_city_county_df(resp)
            /\ wpc' = "cat"
            /\ idx' = 1
            /\ w_data' = EmptyDict
            /\ w_county' = EmptyDict
            /\ UNCHANGED <<done_q, raised_at, cooled, scrapeLocals>>
    /\ UNCHANGED <<cat_requests, windowVars, uiVars>>

\* lines 631-634: get_total_pages, then scrape_website is entered
W_TotalPages(resp) ==
    /\ wpc = "cat"
    /\ wpc' = "pages"
    /\ cat_requests' = cat_requests + 1
    /\ cooled' = FALSE
    /\ total_pages' = get_total_pages(resp)
    /\ cred_tag' = CREDENTIALS[idx]
    /\ output_lines' = output_lines \o << <<"Category", CREDENTIALS[idx], idx>> >>
                                    \o TotalLog(resp)
    /\ spc' = "loop"
    /\ page' = 0
    /\ all_data' = << >>
    /\ scrape_index' = 0
    /\ requested' = << >>
    /\ fetched' = << >>
    /\ slept' = FALSE
    /\ UNCHANGED <<idx, city_county_df, w_data, w_county, ref_state, raised_at,
                   done_q>>
    /\ UNCHANGED <<windowVars, uiVars>>

\* one iteration of scrape_website's loop inside the worker
W_Page(o) ==
    /\ wpc = "pages"
    /\ ScrapePage(o)
    /\ cat_requests' = cat_requests + 1
    /\ UNCHANGED <<wpc, workerLocals, ref_state, raised_at, done_q>>
    /\ UNCHANGED <<windowVars, uiVars>>

\* scrape_website returns to the worker
W_Return ==
    /\ wpc = "pages"
    /\ ScrapeReturn
    /\ UNCHANGED <<workerVars, windowVars, uiVars>>

\* the cooldown applies `if idx < len(CREDENTIALS) - 1`
NeedsCooldown(i) == i < Len(CREDENTIALS)

\* the position after a category that gave records: the cooldown is the last
\* statement of the loop body
AfterStored(i) == IF NeedsCooldown(i) THEN "cool" ELSE "export1"

\* a variant that leaves the category loop at the first empty category
AfterEmpty_Break(i) == "export1"

\* the position after `if df.empty: ...; continue`, which skips the rest of
\* the loop body, the cooldown included
AfterEmpty(i) == AfterCategory(i)

\* lines 640-656: an empty frame is skipped; otherwise merge, filter, sort,
\* store, take the county subset
W_Post ==
    /\ wpc = "pages"
    /\ spc = "ret"
    /\ IF all_data = << >>
       THEN /\ output_lines' = Append(output_lines, <<"NoData", cred_tag>>)
            /\ UNCHANGED <<w_data, w_county>>
            /\ wpc' = AfterEmpty(idx)
            /\ idx' = IF idx < Len(CREDENTIALS) THEN idx + 1 ELSE idx
       ELSE /\ \E df \in SortOutcomes(MergeAndFilter(all_data, city_county_df, cred_tag)) :
                 /\ w_data' = Put(w_data, idx, df)
                 /\ w_county' = Put(w_county, idx, CountyFilter(df))
            /\ output_lines' = output_lines
            /\ wpc' = AfterStored(idx)
            /\ idx' = idx
    /\ UNCHANGED <<city_county_df, cooled, cat_requests, ref_state, raised_at, done_q,
                   scrapeLocals>>
    /\ UNCHANGED <<windowVars, uiVars>>

\* lines 654-656: time.sleep(DELAY_BETWEEN_CREDENTIALS), then the next category
W_Cooldown ==
    /\ wpc = "cool"
    /\ output_lines' = Append(output_lines, <<"Waiting">>)
    /\ cooled' = TRUE
    /\ idx' = idx + 1
    /\ wpc' = "cat"
    /\ UNCHANGED <<city_county_df, w_data, w_county, cat_requests, ref_state, raised_at, done_q,
                   scrapeLocals>>
    /\ UNCHANGED <<windowVars, uiVars>>

\* what the file steps of the worker leave alone
FileStepFrame ==
    UNCHANGED <<cat_requests, ref_state, windowVars, run, btn_disabled, all_excel_path,
                county_excel_path, files0, loaded>>

\* with pd.ExcelWriter(path) as writer: one sheet per entry of d. The file
\* is opened first; saving a workbook without any sheet raises
WriteExcel(path, d, ok, next) ==
    IF ok /\ ~IsEmptyDict(d)
    THEN /\ files' = [files EXCEPT ![path] = Written(run, d)]
         /\ Proceed(next)
    ELSE /\ files' = [files EXCEPT ![path] = Torn(run)]
         /\ Raise

\* lines 658-661
W_ExportAll(ok) ==
    /\ wpc = "export1"
    /\ WriteExcel(ALL_EXCEL, w_data, ok, "export2")
    /\ UNCHANGED ui_data
    /\ FileStepFrame

\* lines 662-665
W_ExportCounty(ok) ==
    /\ wpc = "export2"
    /\ WriteExcel(COUNTY_EXCEL, w_county, ok, "pickle")
    /\ UNCHANGED ui_data
    /\ FileStepFrame

\* lines 667-669: self.all_cred_data = all_cred_data; pd.to_pickle(..)
W_Pickle(ok) ==
    /\ wpc = "pickle"
    /\ ui_data' = w_data
    /\ IF ok
       THEN /\ files' = [files EXCEPT ![CACHE_PICKLE] = Written(run, to_pickle(w_data))]
            /\ Proceed("meta")
       ELSE /\ UNCHANGED files
            /\ Raise
    /\ FileStepFrame

\* lines 670-671: the timestamp marker
W_Meta(ok) ==
    /\ wpc = "meta"
    /\ IF ok
       THEN /\ files' = [files EXCEPT ![CACHE_META] = Written(run, EmptyDict)]
            /\ Proceed("replace1")
       ELSE /\ UNCHANGED files
            /\ Raise
    /\ UNCHANGED ui_data
    /\ FileStepFrame

\* os.replace(src, dst): dst becomes src's file and src is gone
Replace(src, dst, ok, next) ==
    IF ok /\ files[src].exists
    THEN /\ files' = [files EXCEPT ![dst] = files[src], ![src] = NoFile]
         /\ Proceed(next)
    ELSE /\ UNCHANGED files
         /\ Raise

\* line 672
W_ReplaceAll(ok) ==
    /\ wpc = "replace1"
    /\ Replace(ALL_EXCEL, CACHE_ALL_EXCEL, ok, "replace2")
    /\ UNCHANGED ui_data
    /\ FileStepFrame

\* line 673
W_ReplaceCounty(ok) ==
    /\ wpc = "replace2"
    /\ Replace(COUNTY_EXCEL, CACHE_COUNTY_EXCEL, ok, "emit")
    /\ UNCHANGED ui_data
    /\ FileStepFrame

\* lines 675-676: done.emit((all_excel, county_excel)); the thread ends
W_Emit ==
    /\ wpc = "emit"
    /\ output_lines' = Append(output_lines, <<"Done">>)
    /\ done_q' = Append(done_q, <<ALL_EXCEL, COUNTY_EXCEL>>)
    /\ UNCHANGED raised_at
    /\ wpc' = "idle"
    /\ DropLocals
    /\ UNCHANGED <<files, ui_data>>
    /\ FileStepFrame

(***************************************************************************)
(* RecoverySpecialistApp: the UI thread.                                   *)
(***************************************************************************)
\* start_scrape: the GET DATA button's handler
start_scrape ==
    /\ loaded # "pending"
    /\ ~btn_disabled
    /\ run < MaxRuns
    /\ run' = run + 1
    /\ output_lines' = << >>
    /\ btn_disabled' = TRUE
    /\ all_excel_path' = None
    /\ county_excel_path' = None
    /\ ui_data' = EmptyDict
    /\ wpc' = "start"
    /\ cat_requests' = 0
    /\ ref_state' = "none"
    /\ raised_at' = "none"
    /\ files0' = files
    /\ UNCHANGED <<workerLocals, scrapeLocals, done_q, files, loaded, windowVars>>

\* scrape_done(file_tuple): the handler of the done signal
scrape_done ==
    /\ done_q # << >>
    /\ done_q' = Tail(done_q)
    /\ btn_disabled' = FALSE
    /\ all_excel_path' = Head(done_q)[1]
    /\ county_excel_path' = Head(done_q)[2]
    /\ UNCHANGED <<wpc, workerLocals, cat_requests, ref_state, raised_at, run, ui_data, files, files0,
                   loaded>>
    /\ UNCHANGED <<scrapeVars, windowVars>>

(***************************************************************************)
(* RecoverySpecialistApp: load_cache and clear_cache.                      *)
(***************************************************************************)
\* lines 532-535: the application before __init__ calls load_cache
Constructed ==
    /\ WorkerIdle
    /\ run = 0
    /\ btn_disabled = FALSE
    /\ ui_data = EmptyDict
    /\ all_excel_path = None
    /\ county_excel_path = None
    /\ loaded = "pending"

\* what an earlier session can have left on disk: nothing, a whole entry, an
\* entry without its dataset file, a dataset file with the county workbook
LoadDisks ==
    {[f \in FileNames |-> IF f \in keep THEN CachedDisk[f] ELSE NoFile] :
        keep \in {{}, CacheFiles, CacheFiles \ {CACHE_PICKLE},
                  {CACHE_PICKLE, CACHE_COUNTY_EXCEL}}}

\* load_cache: okRead is FALSE when pd.read_pickle raises, okMeta is FALSE
\* when opening or reading CACHE_META raises. The except clause of line 561
\* logs and leaves what the try block had assigned
load_cache(okRead, okMeta) ==
    /\ loaded = "pending"
    /\ IF ~files[CACHE_PICKLE].exists
       THEN /\ loaded' = "false"
            /\ UNCHANGED <<ui_data, all_excel_path, county_excel_path, output_lines>>
       ELSE IF ~(okRead /\ files[CACHE_PICKLE].valid)
       THEN /\ loaded' = "false"
            /\ output_lines' = Append(output_lines, <<"LoadFailed">>)
            /\ UNCHANGED <<ui_data, all_excel_path, county_excel_path>>
       ELSE LET d == read_pickle(files[CACHE_PICKLE].body)
                ps == <<IF files[CACHE_ALL_EXCEL].exists THEN CACHE_ALL_EXCEL ELSE None,
                        IF files[CACHE_COUNTY_EXCEL].exists THEN CACHE_COUNTY_EXCEL
                        ELSE None>>
            IN  IF files[CACHE_META].exists /\ ~okMeta
                THEN /\ loaded' = "false"
                     /\ output_lines' = output_lines \o << <<"Loaded">>, <<"LoadFailed">> >>
                     /\ ui_data' = d
                     /\ all_excel_path' = ps[1]
                     /\ county_excel_path' = ps[2]
                ELSE /\ loaded' = "true"
                     /\ output_lines' = Append(output_lines, <<"Loaded">>)
                     /\ ui_data' = d
                     /\ all_excel_path' = ps[1]
                     /\ county_excel_path' = ps[2]
    /\ UNCHANGED <<files, files0, run, btn_disabled>>
    /\ UNCHANGED <<workerVars, windowVars>>
    /\ UNCHANGED <<spc, cred_tag, total_pages, page, all_data, scrape_index, requested,
                   fetched, slept>>

\* for f in [CACHE_PICKLE, CACHE_ALL_EXCEL, CACHE_COUNTY_EXCEL, CACHE_META]
ClearOrder == <<CACHE_PICKLE, CACHE_ALL_EXCEL, CACHE_COUNTY_EXCEL, CACHE_META>>

\* the lines clear_cache has written to the log since the last start_scrape
ClearLines(log) ==
    Len(SelectSeq(log, LAMBDA l : l \in {<<"Cleared">>, <<"ClearCancelled">>}))

\* the loop of lines 576-582: each existing file is removed on its own; a
\* removal that raises is logged and the loop goes on
Removed(fs, fail) ==
    [f \in FileNames |->
        IF f \in CacheFiles /\ fs[f].exists /\ f \notin fail THEN NoFile ELSE fs[f]]

RemoveErrors(fs, fail) ==
    [k \in 1..Len(SelectSeq(ClearOrder, LAMBDA f : fs[f].exists /\ f \in fail)) |->
        <<"RemoveError", SelectSeq(ClearOrder, LAMBDA f : fs[f].exists /\ f \in fail)[k]>>]

\* the sets of files whose removal fails (a workbook open in another
\* program, a read-only dataset file and marker)
ClearFailures == {{}, {CACHE_ALL_EXCEL}, {CACHE_PICKLE, CACHE_META}}

\* clear_cache: the CLEAR CACHE button's handler; confirm is the answer to the
\* dialog, fail the files whose os.remove raises
clear_cache(confirm, fail) ==
    /\ loaded # "pending"
    /\ ClearLines(output_lines) < MaxClears
    /\ IF ~confirm
       THEN /\ output_lines' = Append(output_lines, <<"ClearCancelled">>)
            /\ UNCHANGED <<files, ui_data, all_excel_path, county_excel_path>>
       ELSE /\ files' = Removed(files, fail)
            /\ output_lines' = output_lines \o RemoveErrors(files, fail) \o << <<"Cleared">> >>
            /\ ui_data' = EmptyDict
            /\ all_excel_path' = None
            /\ county_excel_path' = None
    /\ UNCHANGED <<files0, run, btn_disabled, loaded>>
    /\ UNCHANGED <<workerVars, windowVars>>
    /\ UNCHANGED <<spc, cred_tag, total_pages, page, all_data, scrape_index, requested,
                   fetched, slept>>

(***************************************************************************)
(* ReportWindow: the summary of the datasets per tab, category and month.  *)
(***************************************************************************)
tab_keys ==
    <<"All", "Philadelphia", "Region 4", "Berks", "Bucks", "Chester",
      "Delaware", "Lancaster", "Montgomery", "Schuylkill">>

\* a variant that keeps Philadelphia in the region
REGION_4_COUNTIES_All == SELECTED_COUNTIES

\* REGION_4_COUNTIES = [c for c in SELECTED_COUNTIES if c != "Philadelphia"]
REGION_4_COUNTIES == SELECTED_COUNTIES \ {"Philadelphia"}

\* self.all_cred_data.get(cred, pd.DataFrame()): the stored frame, or a frame
\* without any column
Frame(d, i) ==
    IF d[i].has THEN [columns |-> TRUE, rows |-> d[i].rows]
    ELSE [columns |-> FALSE, rows |-> << >>]

\* df['County'], dff["ISSUE DATE"], dff["EXP DATE"] raise KeyError on a frame
\* that has no such column
KeyError(df) == ~df.columns

\* get_county_filter(df, tabkey) raises: every tab but "All" reads df['County']
FilterRaises(df, tabkey) == tabkey # "All" /\ KeyError(df)

\* get_county_filter(df, tabkey) when it returns
get_county_filter(df, tabkey) ==
    IF tabkey = "All" THEN df
    ELSE IF tabkey = "Region 4"
    THEN [df EXCEPT !.rows = SelectSeq(df.rows, LAMBDA r : r.County \in REGION_4_COUNTIES)]
    ELSE IF tabkey \in SELECTED_COUNTIES
    THEN [df EXCEPT !.rows = SelectSeq(df.rows, LAMBDA r : r.County = tabkey)]
    ELSE df

\* pd.to_datetime(.., errors="coerce") of one cell: the date of a text
\* MM/DD/YYYY that names a day of the calendar, NaT for any other text.
\* NaT is the date without year and month (its .dt.year and .dt.month are NaN)
NaT == [year |-> 0, month |-> 0]
IsLeap(y) == (y % 4 = 0 /\ y % 100 # 0) \/ y % 400 = 0
DaysIn(mm, y) ==
    IF mm = 2 THEN (IF IsLeap(y) THEN 29 ELSE 28)
    ELSE IF mm \in {4, 6, 9, 11} THEN 30 ELSE 31

to_datetime(s) ==
    IF /\ Len(s) = 10
       /\ s[3] = "/" /\ s[6] = "/"
       /\ \A i \in {1, 2, 4, 5, 7, 8, 9, 10} : IsDigit(s[i])
    THEN LET mm == 10 * DigitVal(s[1]) + DigitVal(s[2])
             dd == 10 * DigitVal(s[4]) + DigitVal(s[5])
             yyyy == 1000 * DigitVal(s[7]) + 100 * DigitVal(s[8])
                        + 10 * DigitVal(s[9]) + DigitVal(s[10])
         IN  IF mm \in 1..12 /\ dd \in 1..DaysIn(mm, yyyy) /\ yyyy >= 1
             THEN [year |-> yyyy, month |-> mm]
             ELSE NaT
    ELSE NaT

\* a variant that compares the month alone
InMonth_AnyYear(d, m) == d # NaT /\ d.month = m[2]

\* (x.dt.year == m.year) & (x.dt.month == m.month): False for NaT
InMonth(d, m) == d # NaT /\ d.year = m[1] /\ d.month = m[2]

\* int(issued_in_month.sum()) and int(expired_in_month.sum())
IssuedIn(dff, m) ==
    Len(SelectSeq(dff.rows, LAMBDA r : InMonth(to_datetime(r.ISSUE_DATE), m)))
ExpiredIn(dff, m) ==
    Len(SelectSeq(dff.rows, LAMBDA r : InMonth(to_datetime(r.EXP_DATE), m)))

\* build_report_summary raises: some tab's filter, or some month's column
\* access, meets a frame without columns
SummaryRaises(d, ms) ==
    \E k \in 1..Len(tab_keys), i \in 1..Len(CREDENTIALS) :
        \/ FilterRaises(Frame(d, i), tab_keys[k])
        \/ ms # << >> /\ KeyError(get_county_filter(Frame(d, i), tab_keys[k]))

\* the dict `summary`: per tab the totals and, per month, the two counts
Summary(d, ms) ==
    [t \in {tab_keys[k] : k \in 1..Len(tab_keys)} |->
        [total |-> [i \in 1..Len(CREDENTIALS) |->
                       Len(get_county_filter(Frame(d, i), t).rows)],
         months |-> [k \in 1..Len(ms) |->
                       [issued |-> [i \in 1..Len(CREDENTIALS) |->
                                      IssuedIn(get_county_filter(Frame(d, i), t), ms[k])],
                        expired |-> [i \in 1..Len(CREDENTIALS) |->
                                      ExpiredIn(get_county_filter(Frame(d, i), t), ms[k])]]]]]

build_report_summary ==
    /\ rpc = "new"
    /\ months' = WindowMonths(now)
    /\ IF SummaryRaises(ui_data, months')
       THEN /\ rpc' = "raised"
            /\ report_summary' = None
       ELSE /\ rpc' = "built"
            /\ report_summary' = Summary(ui_data, months')
    /\ UNCHANGED now

\* show_report_window: `if not self.all_cred_data: return`, else the
\* ReportWindow is constructed from self.all_cred_data
show_report_window ==
    /\ ~IsEmptyDict(ui_data)
    /\ build_report_summary

\* a row of a stored dataset
ReportRow(n, num, iss, ex, county) ==
    [SCRAPE_ORDER |-> n, NAME |-> "R", CITY |-> <<"a", "b">>, CREDENTIAL |-> sCRS,
     NUMBER |-> num, ISSUE_DATE |-> iss, EXP_DATE |-> ex, STATUS |-> "Active",
     County |-> county]

\* datasets a run can leave in self.all_cred_data
DataCRS ==
    << ReportRow(0, "R1", DateText(7, 15, 2023), DateText(7, 15, 2025), "Berks"),
       ReportRow(1, "R2", BadDate, DateText(6, 30, 2024), "Philadelphia"),
       ReportRow(2, "R3", DateText(8, 1, 2024), << >>, NaN),
       ReportRow(3, "R4", DateText(2, 30, 2024), DateText(8, 1, 2024), "Erie"),
       ReportRow(4, "R5", DateText(7, 1, 2023), DateText(7, 31, 2023), "Berks") >>
DataCFRS ==
    << ReportRow(0, "R6", DateText(12, 31, 2023), DateText(1, 1, 2024), "Bucks") >>

DataCRSS ==
    << ReportRow(0, "R7", DateText(9, 1, 2024), DateText(9, 1, 2026), "Bucks"),
       ReportRow(1, "R8", DateText(9, 15, 2024), DateText(9, 1, 2026), "Philadelphia"),
       ReportRow(2, "R9", DateText(9, 30, 2024), DateText(10, 1, 2026), "Chester"),
       ReportRow(3, "R10", DateText(10, 1, 2024), DateText(9, 1, 2026), "Berks"),
       ReportRow(4, "R11", DateText(9, 2, 2024), << >>, "Erie") >>

\* the collections the report is built from: complete, with a category whose
\* dataset has no rows, and with one or two categories absent
ReportInputs ==
    {Put(Put(Put(EmptyDict, 1, DataCRS), 2, DataCFRS), 3, << >>),
     Put(Put(Put(EmptyDict, 1, DataCFRS), 2, DataCRS), 3, DataCRSS),
     Put(Put(EmptyDict, 1, DataCRS), 3, DataCFRS),
     Put(EmptyDict, 2, DataCRS)}

\* the application holding such a collection, no run in progress
InitReport ==
    /\ WorkerIdle
    /\ run = 0
    /\ btn_disabled = FALSE
    /\ ui_data \in ReportInputs
    /\ all_excel_path = None
    /\ county_excel_path = None
    /\ files = EmptyDisk
    /\ files0 = EmptyDisk
    /\ loaded = "false"

(***************************************************************************)
(* Specification of the report window: build_report_summary for any now.   *)
(***************************************************************************)
WindowBuild == show_report_window /\ UNCHANGED <<scrapeVars, workerVars, uiVars>>

InitW == InitWindow /\ ScrapeIdle /\ InitReport
NextW == WindowBuild
SpecWindow == InitW /\ [][NextW]_vars

(***************************************************************************)
(* Specification of one scrape_website call, for any total_pages and any   *)
(* outcome of each page request.                                           *)
(***************************************************************************)
PageStep ==
    (\E o \in Outcomes : ScrapePage(o)) /\ UNCHANGED <<windowVars, workerVars, uiVars>>
ReturnStep == ScrapeReturn /\ UNCHANGED <<windowVars, workerVars, uiVars>>

InitS ==
    /\ WindowIdle
    /\ AppIdle
    /\ \E tag \in {CREDENTIALS[i] : i \in 1..Len(CREDENTIALS)}, tp \in 0..MaxPages :
          ScrapeEntry(tag, tp)
NextS == PageStep \/ ReturnStep
SpecScrape == InitS /\ [][NextS]_vars

(***************************************************************************)
(* Specification of the application: the UI thread and the scrape worker.  *)
(***************************************************************************)
LoadRefStep == \E resp \in RunRefResponses : W_LoadRef(resp)
TotalPagesStep == \E resp \in RunTotalResponses : W_TotalPages(resp)
RunPageStep == \E o \in RunOutcomes : W_Page(o)
ExportAllStep == \E ok \in BOOLEAN : W_ExportAll(ok)
ExportCountyStep == \E ok \in BOOLEAN : W_ExportCounty(ok)
PickleStep == \E ok \in BOOLEAN : W_Pickle(ok)
MetaStep == \E ok \in BOOLEAN : W_Meta(ok)
ReplaceAllStep == \E ok \in BOOLEAN : W_ReplaceAll(ok)
ReplaceCountyStep == \E ok \in BOOLEAN : W_ReplaceCounty(ok)

Init == WindowIdle /\ ScrapeIdle /\ InitApp
Next ==
    \/ start_scrape
    \/ scrape_done
    \/ LoadRefStep
    \/ TotalPagesStep
    \/ RunPageStep
    \/ W_Return
    \/ W_Post
    \/ W_Cooldown
    \/ ExportAllStep
    \/ ExportCountyStep
    \/ PickleStep
    \/ MetaStep
    \/ ReplaceAllStep
    \/ ReplaceCountyStep
    \/ W_Emit
Spec == Init /\ [][Next]_vars

(***************************************************************************)
(* Specification of the cache: the application from its construction, with *)
(* load_cache, clear_cache and runs whose requests all succeed.            *)
(***************************************************************************)
LoadCacheStep == \E okRead \in BOOLEAN, okMeta \in BOOLEAN : load_cache(okRead, okMeta)
ClearCacheStep ==
    \E confirm \in BOOLEAN, fail \in ClearFailures : clear_cache(confirm, fail)
GoodRefStep == W_LoadRef([ok |-> TRUE, rows |-> CsvGood])
OnePageStep == W_TotalPages([kind |-> "link", href |-> Href(0)])
GoodPageStep == W_Page([kind |-> "table", rows |-> PageB])

InitK ==
    /\ WindowIdle
    /\ ScrapeIdle
    /\ Constructed
    /\ files \in LoadDisks
    /\ files0 = files
NextK ==
    \/ LoadCacheStep
    \/ ClearCacheStep
    \/ start_scrape
    \/ scrape_done
    \/ GoodRefStep
    \/ OnePageStep
    \/ GoodPageStep
    \/ W_Return
    \/ W_Post
    \/ W_Cooldown
    \/ ExportAllStep
    \/ ExportCountyStep
    \/ PickleStep
    \/ MetaStep
    \/ ReplaceAllStep
    \/ ReplaceCountyStep
    \/ W_Emit
SpecCache == InitK /\ [][NextK]_vars

(***************************************************************************)
(* Specification of the page-count discovery: get_total_pages at the head  *)
(* of a category pass, for any answer of the listing site.                 *)
(***************************************************************************)
AnyTotalPagesStep == cat_requests = 0 /\ \E resp \in TotalResponses : W_TotalPages(resp)

(***************************************************************************)
(* Specification of one pass of the worker's category loop: any category,  *)
(* any non-empty reference table, any listing pages.                       *)
(***************************************************************************)
CatTotalResponses == {[kind |-> "link", href |-> Href(n)] : n \in 0..(MaxPages - 1)}

CatTotalPagesStep == cat_requests = 0 /\ \E resp \in CatTotalResponses : W_TotalPages(resp)
CatPageStep == \E o \in Outcomes : W_Page(o)

InitC ==
    /\ WindowIdle
    /\ ScrapeIdle
    /\ wpc = "cat"
    /\ idx \in 1..Len(CREDENTIALS)
    /\ city_county_df \in {get_city_county_df(r) : r \in {x \in RefResponses : x.rows # << >>}}
    /\ w_data = EmptyDict
    /\ w_county = EmptyDict
    /\ cooled = (idx > 1)
    /\ cat_requests = 0
    /\ ref_state = "table"
    /\ raised_at = "none"
    /\ done_q = << >>
    /\ run = 1
    /\ btn_disabled = TRUE
    /\ ui_data = EmptyDict
    /\ all_excel_path = None
    /\ county_excel_path = None
    /\ files = EmptyDisk
    /\ files0 = EmptyDisk
    /\ loaded = "false"
NextC == CatTotalPagesStep \/ CatPageStep \/ W_Return \/ W_Post
SpecCategory == InitC /\ [][NextC]_vars

InitP == InitC
\* with a page count below 1 the loop of scrape_website has no iteration
NextP == AnyTotalPagesStep \/ W_Return \/ W_Post
SpecPages == InitP /\ [][NextP]_vars

(***************************************************************************)
(* Claims about the report window (SpecWindow).                            *)
(***************************************************************************)
MonthOrd(dt) == dt[1] * 12 + dt[2] - 1
OrdMonth(n) == <<n \div 12, (n % 12) + 1>>

\* the window start the specification states: the most recent July 1
StatedStart(n) == IF n.month >= 7 THEN <<n.year, 7>> ELSE <<n.year - 1, 7>>

\* the consecutive months from first through now's month, latest first
MonthsBack(n, first) ==
    [i \in 1..(MonthOrd(<<n.year, n.month>>) - MonthOrd(first) + 1) |->
        OrdMonth(MonthOrd(<<n.year, n.month>>) - (i - 1))]

\* the window start the code takes: the July 1 before the most recent one
EarlierStart(n) == <<StatedStart(n)[1] - 1, 7>>

C2_DelayBeforeNextRequest ==
    (spc = "loop" /\ 0 < page /\ page < total_pages) => slept

\* C4: every page index 0..total_pages-1 is requested exactly once, in
\* ascending order, whatever requests fail; the function returns after
\* exactly total_pages attempts.
C4_EveryPageOnce ==
    /\ requested = [i \in 1..Len(requested) |-> i - 1]
    /\ Len(requested) <= total_pages
    /\ Len(fetched) = Len(requested)
    /\ spc = "ret" => Len(requested) = total_pages

C4_Witness ==
    /\ spc = "ret"
    /\ total_pages >= 3
    /\ fetched[1].kind = "fail"
    /\ fetched[2].kind = "table"
    /\ fetched[3].kind = "fail"

\* the credential rows of the fetched pages that the parser emits: page i,
\* subject row j, credential row k
Emitted ==
    {pos \in UNION {UNION {{<<i, j, k>> : k \in 1..Len(fetched[i].rows[j].certs)}
                            : j \in 1..Len(fetched[i].rows)}
                     : i \in 1..Len(fetched)} :
        /\ fetched[pos[1]].kind = "table"
        /\ fetched[pos[1]].rows[pos[2]].ncols >= 3
        /\ fetched[pos[1]].rows[pos[2]].hasCert
        /\ fetched[pos[1]].rows[pos[2]].certs[pos[3]].ncells = 5}

\* encounter order: page ascending, then row, then credential row
Before(a, b) ==
    \/ a[1] < b[1]
    \/ a[1] = b[1] /\ a[2] < b[2]
    \/ a[1] = b[1] /\ a[2] = b[2] /\ a[3] < b[3]

Rank(pos) == Cardinality({q \in Emitted : Before(q, pos)})

SubjectAt(pos) == fetched[pos[1]].rows[pos[2]]
CertAt(pos) == SubjectAt(pos).certs[pos[3]]

\* the record carries the texts of its credential row
Carries(rec, pos) ==
    /\ rec.NAME = SubjectAt(pos).name
    /\ rec.NUMBER = CertAt(pos).number
    /\ rec.ISSUE_DATE = CertAt(pos).issue
    /\ rec.EXP_DATE = CertAt(pos).expire
    /\ rec.STATUS = CertAt(pos).status

FailedLines(p) ==
    {n \in 1..Len(output_lines) : output_lines[n] = <<"Failed", cred_tag, p>>}

\* C5: the dataset holds every record of every successfully fetched page,
\* and each failed page has one log line identifying it.
C5_PartialFailure ==
    /\ \A pos \in Emitted : \E n \in 1..Len(all_data) : Carries(all_data[n], pos)
    /\ Len(all_data) >= Cardinality(Emitted)
    /\ \A i \in 1..Len(fetched) :
          Cardinality(FailedLines(requested[i])) =
              IF fetched[i].kind = "fail" THEN 1 ELSE 0

C5_Witness ==
    /\ spc = "ret"
    /\ Len(fetched) >= 3
    /\ fetched[1].kind = "table" /\ fetched[1].rows = PageA
    /\ fetched[2].kind = "fail"
    /\ fetched[3].kind = "table" /\ fetched[3].rows = PageD
    /\ Len(all_data) = 5

\* C6: SCRAPE ORDER runs 0, 1, 2, ... in emission order over the whole
\* call: one counter for all pages, advanced only by emitted records, so
\* the values follow page-ascending then row-ascending encounter order.
C6_ScrapeOrder ==
    /\ Len(all_data) = Cardinality(Emitted)
    /\ scrape_index = Len(all_data)
    /\ \A n \in 1..Len(all_data) : all_data[n].SCRAPE_ORDER = n - 1
    /\ \A pos \in Emitted :
          /\ all_data[Rank(pos) + 1].SCRAPE_ORDER = Rank(pos)
          /\ Carries(all_data[Rank(pos) + 1], pos)

C6_Witness ==
    /\ Len(fetched) >= 3
    /\ fetched[1].kind = "table" /\ fetched[1].rows = PageB
    /\ fetched[2].kind = "notable"
    /\ fetched[3].kind = "table" /\ fetched[3].rows = PageD
    /\ all_data[4].SCRAPE_ORDER = 3
    /\ all_data[4].NUMBER = "N7"

(***************************************************************************)
(* Claims about the worker (Spec) and its category pass (SpecCategory).    *)
(***************************************************************************)
\* C3: before the first request of every category after the first, the
\* 10-second cooldown has elapsed since the previous category's scrape.
C3_CooldownBetweenCategories ==
    (wpc = "cat" /\ idx > 1) => cooled

\* the worker has just stored the dataset of category idx
Stored ==
    /\ spc = "ret"
    /\ wpc \in {"cool", "export1"}
    /\ w_data[idx].has

Dataset == w_data[idx].rows

\* the rows of the dataset that come from the scraped record numbered n
RowsOf(n) == {m \in 1..Len(Dataset) : Dataset[m].SCRAPE_ORDER = n}

\* C7: in every stored dataset SCRAPE ORDER is strictly increasing from one
\* record to the next, for every reference table the loader can return.
C7_StrictlyIncreasing ==
    \A i \in 1..Len(CREDENTIALS) :
        w_data[i].has =>
            \A m \in 1..(Len(w_data[i].rows) - 1) :
                w_data[i].rows[m].SCRAPE_ORDER < w_data[i].rows[m + 1].SCRAPE_ORDER

\* C8: a scraped record is in the category's dataset if and only if its
\* credential type contains the category code (case-sensitive substring).
C8_CategoryPurity ==
    Stored =>
        /\ \A n \in 1..Len(all_data) :
              Contains(all_data[n].CREDENTIAL, cred_tag)
                  <=> (\E m \in RowsOf(all_data[n].SCRAPE_ORDER) :
                          /\ Dataset[m].CREDENTIAL = all_data[n].CREDENTIAL
                          /\ Dataset[m].NUMBER = all_data[n].NUMBER)
        /\ \A m \in 1..Len(Dataset) :
              /\ Contains(Dataset[m].CREDENTIAL, cred_tag)
              /\ \E n \in 1..Len(all_data) :
                    all_data[n].SCRAPE_ORDER = Dataset[m].SCRAPE_ORDER

C8_Witness ==
    /\ Stored
    /\ cred_tag = sCRS
    /\ \E m \in 1..Len(Dataset) : Dataset[m].CREDENTIAL = sCRSS
    /\ \E n \in 1..Len(all_data) : all_data[n].CREDENTIAL = sLowCrs
    /\ \E n \in 1..Len(all_data) : all_data[n].CREDENTIAL = sCFRS
    /\ Len(Dataset) < Len(all_data)

\* the reference entries whose key is the record's normalized city
Hits(rec) == {e \in 1..Len(city_county_df) : city_county_df[e].City = rec.CITY}

\* C9: the merge is a left join on the lowercase-trimmed city: a record
\* whose city is a key gets that key's county (one row per reference entry
\* of the key), a record without a match is kept with a null county.
C9_LeftJoin ==
    Stored =>
        \A n \in 1..Len(all_data) :
            Contains(all_data[n].CREDENTIAL, cred_tag) =>
                LET got == RowsOf(all_data[n].SCRAPE_ORDER)
                    hit == Hits(all_data[n])
                IN  /\ all_data[n].CITY = Lower(Strip(all_data[n].CITY))
                    /\ IF hit = {}
                       THEN /\ Cardinality(got) = 1
                            /\ \A m \in got : Dataset[m].County = NaN
                       ELSE /\ Cardinality(got) = Cardinality(hit)
                            /\ \A m \in got :
                                  \E e \in hit : Dataset[m].County = city_county_df[e].County
                            /\ \A e \in hit :
                                  \E m \in got : Dataset[m].County = city_county_df[e].County

C9_Witness ==
    /\ Stored
    /\ cred_tag = sCRSS
    /\ city_county_df = get_city_county_df([ok |-> TRUE, rows |-> CsvGood])
    /\ Len(fetched) = 2
    /\ fetched[1].rows = PageB
    /\ fetched[2].rows = PageD
    /\ Len(Dataset) = 2
    /\ Dataset[1].NUMBER = "N4" /\ Dataset[1].County = "Berks"
    /\ Dataset[2].NUMBER = "N7" /\ Dataset[2].County = NaN

\* C10: when the reference loader returns an empty table the run makes no
\* category request, produces no dataset, writes no file and signals
\* completion with (None, None).
C10_EmptyReferenceAborts ==
    ref_state = "empty" =>
        /\ wpc = "idle"
        /\ cat_requests = 0
        /\ IsEmptyDict(w_data) /\ IsEmptyDict(ui_data)
        /\ \A f \in FileNames : files[f].exists => files[f].by # run
        /\ \/ done_q = << <<None, None>> >> /\ btn_disabled
           \/ /\ done_q = << >>
              /\ ~btn_disabled
              /\ all_excel_path = None
              /\ county_excel_path = None

C10_Witness ==
    /\ ref_state = "empty"
    /\ run = 1
    /\ done_q = << >>
    /\ ~btn_disabled
    /\ files = CachedDisk
    /\ \E n \in 1..Len(output_lines) : output_lines[n] = <<"RefRequired">>

(***************************************************************************)
(* Claims about a run with an empty category and about what is persisted   *)
(* (Spec).                                                                 *)
(***************************************************************************)
\* the log holds the "no data" line of category i
NoDataLogged(i) ==
    \E n \in 1..Len(output_lines) : output_lines[n] = <<"NoData", CREDENTIALS[i]>>

\* the step that follows the return of scrape_website for category idx
AfterScrape == wpc = "pages" /\ spc = "ret" /\ wpc' # "pages"

\* a category whose scrape gave no record is logged and skipped: the worker
\* goes on with the next category and keeps every dataset it has
EmptyCategorySkipped ==
    (AfterScrape /\ all_data = << >>) =>
        /\ output_lines' = Append(output_lines, <<"NoData", CREDENTIALS[idx]>>)
        /\ w_data' = w_data
        /\ w_county' = w_county
        /\ done_q' = done_q
        /\ IF idx < Len(CREDENTIALS)
           THEN wpc' = "cat" /\ idx' = idx + 1
           ELSE wpc' = "export1"

\* a category whose scrape gave records gets a dataset, and a dataset stays
\* as it is for as long as the worker runs
DatasetsKept ==
    /\ (AfterScrape /\ all_data # << >>) => w_data'[idx].has /\ w_county'[idx].has
    /\ \A i \in 1..Len(CREDENTIALS) :
          (w_data[i].has /\ wpc' # "idle") => w_data'[i] = w_data[i]

\* the run that reached its end holds a dataset for exactly the categories
\* that were not logged as empty, and each of them is in the pickle, in both
\* workbooks and in the application's dict
PartialResultsSaved ==
    wpc = "emit" =>
        \A i \in 1..Len(CREDENTIALS) :
            /\ w_data[i].has <=> ~NoDataLogged(i)
            /\ w_data[i].has =>
                  /\ ui_data[i] = w_data[i]
                  /\ files[CACHE_PICKLE] = Written(run, to_pickle(w_data))
                  /\ files[CACHE_ALL_EXCEL] = Written(run, w_data)
                  /\ files[CACHE_COUNTY_EXCEL] = Written(run, w_county)
                  /\ w_county[i].has

\* C11: a category whose scrape yields zero records is logged and the worker
\* goes on to the next category; the run still ends with a dataset for every
\* other category that yielded records, and those datasets are exported and
\* persisted.
C11_EmptyCategoryContinues ==
    /\ [][EmptyCategorySkipped /\ DatasetsKept]_vars
    /\ []PartialResultsSaved

C11_Witness ==
    /\ wpc = "emit"
    /\ NoDataLogged(2)
    /\ w_data[1].has /\ ~w_data[2].has /\ w_data[3].has
    /\ w_data[1].rows # << >>
    /\ files[CACHE_PICKLE] = Written(run, to_pickle(w_data))
    /\ files0 = CachedDisk

(***************************************************************************)
(* Claims about the report summary (SpecWindow).                           *)
(***************************************************************************)
Tabs == {tab_keys[k] : k \in 1..Len(tab_keys)}

\* the categories that have no dataset in the collection the report is built from
Missing == {i \in 1..Len(CREDENTIALS) : ~ui_data[i].has}

\* C12: build_report_summary, given a collection that lacks one or more
\* categories, returns without raising a summary in which the missing
\* category's total and every monthly issued and expired count is 0 for
\* every geography slice.
C12_PartialResultsUsable ==
    (rpc # "new" /\ Missing # {}) =>
        /\ rpc = "built"
        /\ \A t \in Tabs, i \in Missing :
              /\ report_summary[t].total[i] = 0
              /\ \A k \in 1..Len(months) :
                    /\ report_summary[t].months[k].issued[i] = 0
                    /\ report_summary[t].months[k].expired[i] = 0

\* the record belongs to the geography slice of tab t
InSlice(r, t) ==
    \/ t = "All"
    \/ t = "Region 4" /\ r.County \in SELECTED_COUNTIES /\ r.County # "Philadelphia"
    \/ t \notin {"All", "Region 4"} /\ r.County = t

\* the positions in category i's dataset of the records of slice t
SliceOf(i, t) == {n \in 1..Len(ui_data[i].rows) : InSlice(ui_data[i].rows[n], t)}

\* the date text parses to a day of month m = <<year, month>>
ParsesTo(s, m) == to_datetime(s) = [year |-> m[1], month |-> m[2]]

\* C19: for every geography slice, category and window month the issued
\* count is the number of records of the slice whose issue date parses to
\* that (year, month), and the expired count is the same from the expiration
\* date; a record whose date does not parse is counted for no month, does not
\* make the summary raise, and still counts in the slice's total.
C19_MonthlyCounts ==
    /\ (rpc # "new" /\ Missing = {}) => rpc = "built"
    /\ rpc = "built" =>
          \A t \in Tabs, i \in 1..Len(CREDENTIALS) :
              /\ report_summary[t].total[i] = Cardinality(SliceOf(i, t))
              /\ \A k \in 1..Len(months) :
                    /\ report_summary[t].months[k].issued[i] =
                          Cardinality({n \in SliceOf(i, t) :
                              ParsesTo(ui_data[i].rows[n].ISSUE_DATE, months[k])})
                    /\ report_summary[t].months[k].expired[i] =
                          Cardinality({n \in SliceOf(i, t) :
                              ParsesTo(ui_data[i].rows[n].EXP_DATE, months[k])})
              /\ \A n \in SliceOf(i, t) :
                    to_datetime(ui_data[i].rows[n].ISSUE_DATE) = NaT =>
                        \A k \in 1..Len(months) :
                            report_summary[t].months[k].issued[i]
                                <= Cardinality(SliceOf(i, t) \ {n})

\* the report of July 2025 over a complete collection: R2 (Philadelphia, no
\* issue date) is in the total of its slice and in no issued count
C19_Witness ==
    /\ rpc = "built"
    /\ now = [year |-> 2025, month |-> 7, day |-> 15]
    /\ ui_data[1].rows = DataCRS
    /\ to_datetime(DataCRS[2].ISSUE_DATE) = NaT
    /\ to_datetime(DataCRS[4].ISSUE_DATE) = NaT
    /\ report_summary["Philadelphia"].total[1] = 1
    /\ \A k \in 1..Len(months) : report_summary["Philadelphia"].months[k].issued[1] = 0
    /\ report_summary["All"].total[1] = 5
    /\ report_summary["All"].months[12].issued[1] = 1
    /\ report_summary["All"].months[12].expired[1] = 1
    /\ report_summary["All"].months[1].expired[1] = 1
    /\ report_summary["Region 4"].months[1].expired[1] = 1
    /\ report_summary["Berks"].total[1] = 2

(***************************************************************************)
(* Claims about the cache entry on disk (Spec).                            *)
(***************************************************************************)
\* C13: the cache entry is written atomically: in every reachable state,
\* also when the save sequence stops between two file operations, the four
\* persisted artifacts belong to the same run (or are all absent), never the
\* dataset of a new run next to older or missing companions.
C13_AtomicCacheEntry ==
    \A f, g \in CacheFiles :
        /\ files[f].exists = files[g].exists
        /\ files[f].exists => files[f].by = files[g].by

\* the run ended early before its save sequence began: the reference table
\* was empty, or an exception was raised while scraping, merging or writing
\* the two workbooks
FailedBeforeSave ==
    raised_at \in {"start", "cat", "pages", "cool", "export1", "export2"}

\* C14: a run that does not complete successfully (reference load failure,
\* or an exception raised during scraping, merging or export generation)
\* leaves all four persisted cache artifacts exactly as they were before the
\* run started.
C14_FailedRunKeepsCache ==
    FailedBeforeSave => \A f \in CacheFiles : files[f] = files0[f]

C14_Witness ==
    /\ raised_at = "export2"
    /\ wpc = "idle"
    /\ files0 = CachedDisk
    /\ files[ALL_EXCEL].exists /\ files[ALL_EXCEL].by = run
    /\ files[COUNTY_EXCEL] = Torn(run)
    /\ files[CACHE_PICKLE] = Written(0, to_pickle(OldData))
    /\ IsEmptyDict(ui_data)

(***************************************************************************)
(* Claims about load_cache and clear_cache (SpecCache).                    *)
(***************************************************************************)
\* nothing but __init__ and load_cache has acted yet
JustLoaded == run = 0 /\ ClearLines(output_lines) = 0

NothingInMemory ==
    /\ IsEmptyDict(ui_data)
    /\ all_excel_path = None
    /\ county_excel_path = None

\* C15: load_cache populates the in-memory datasets and export paths only
\* when the dataset artifact exists and the whole load succeeds; when the
\* dataset artifact is absent, or any read step of the load fails, the load
\* reports failure and leaves the datasets empty and the paths absent.
C15_LoadAllOrNothing ==
    JustLoaded =>
        /\ loaded = "true" =>
              /\ files[CACHE_PICKLE].exists
              /\ ui_data = read_pickle(files[CACHE_PICKLE].body)
        /\ loaded # "true" => NothingInMemory

\* a confirmed clear_cache has just returned
ClearReturned ==
    /\ ClearLines(output_lines') > ClearLines(output_lines)
    /\ output_lines'[Len(output_lines')] = <<"Cleared">>

\* C16: a confirmed clear_cache is all-or-nothing: when it returns, either
\* all four artifacts are gone and the in-memory state is cleared, or
\* nothing was changed.
C16_ClearAllOrNothing ==
    [][ClearReturned =>
          \/ /\ \A f \in CacheFiles : ~files'[f].exists
             /\ NothingInMemory'
          \/ /\ files' = files
             /\ UNCHANGED <<ui_data, all_excel_path, county_excel_path>>]_vars

\* the confirmed invalidations since the last start_scrape
Invalidations == Len(SelectSeq(output_lines, LAMBDA l : l = <<"Cleared">>))

\* C17: clear_cache does not run between start_scrape and the worker's
\* completion, and a cache artifact appears on disk only in a run during
\* which no invalidation took place.
C17_NoOverlap ==
    /\ [](wpc # "idle" => Invalidations = 0)
    /\ [][\A f \in CacheFiles :
             (files'[f].exists /\ ~files[f].exists) => Invalidations = 0]_vars

(***************************************************************************)
(* Claims about get_total_pages (SpecPages).                               *)
(***************************************************************************)
\* C18: get_total_pages always returns an integer >= 1: the page index of
\* the 'Go to last page' link plus 1 when the link's target parses, the
\* fallback 98 on a fetch failure, a parse failure or a missing link.
C18_TotalPagesAtLeastOne ==
    wpc = "pages" =>
        /\ total_pages >= 1
        /\ total_pages = FallbackPages
              \/ \E resp \in TotalResponses :
                    /\ resp.kind = "link"
                    /\ PyInt(SplitLast(resp.href, PageParam)).ok
                    /\ total_pages = PyInt(SplitLast(resp.href, PageParam)).val + 1

(***************************************************************************)
(* Claims about the selected-counties dataset (SpecCategory).              *)
(***************************************************************************)
\* the 8 allow-listed counties
AllowListed ==
    {"Philadelphia", "Berks", "Bucks", "Chester", "Delaware", "Lancaster",
     "Montgomery", "Schuylkill"}

CountyDataset == w_county[idx].rows

\* the positions of the category's dataset whose county is allow-listed
KeptRows == {m \in 1..Len(Dataset) : Dataset[m].County \in AllowListed}

\* the k-th of these positions, in increasing order
KeptAt(k) == CHOOSE m \in KeptRows : Cardinality({x \in KeptRows : x < m}) = k - 1

\* C20: the selected-counties dataset is exactly the sub-sequence of the
\* category's dataset whose county equals one of the 8 allow-listed counties:
\* records with a null or non-listed county are excluded, and the retained
\* records keep their SCRAPE ORDER values and their relative order.
C20_CountySubset ==
    Stored =>
        /\ w_county[idx].has
        /\ Len(CountyDataset) = Cardinality(KeptRows)
        /\ \A k \in 1..Len(CountyDataset) : CountyDataset[k] = Dataset[KeptAt(k)]

C20_Witness ==
    /\ Stored
    /\ cred_tag = sCRS
    /\ Len(Dataset) = 5
    /\ Dataset[1].County = "berks"
    /\ Dataset[5].County = NaN
    /\ Len(CountyDataset) = 2
    /\ CountyDataset[1] = Dataset[2]
    /\ CountyDataset[2].County = "Berks"
    /\ CountyDataset[2].NUMBER = "N4"
    /\ CountyDataset[2].SCRAPE_ORDER > 0

(***************************************************************************)
(* Claims about the geography slices of the summary (SpecWindow).          *)
(***************************************************************************)
\* the seven allow-listed counties other than Philadelphia
RegionMembers ==
    <<"Berks", "Bucks", "Chester", "Delaware", "Lancaster", "Montgomery", "Schuylkill">>

\* the sum over the member counties of f
RECURSIVE SumOver(_, _)
SumOver(f(_), n) == IF n = 0 THEN 0 ELSE SumOver(f, n - 1) + f(RegionMembers[n])

\* the records the summary counts for category i on tab t
SliceRows(i, t) == get_county_filter(Frame(ui_data, i), t).rows

\* C25: for every category the 'Region 4' total is the sum of the totals of
\* the seven allow-listed counties other than Philadelphia, 'Region 4' and
\* 'Philadelphia' share no record, each single-county slice holds exactly the
\* records whose county equals that name, and every slice's total and
\* monthly counts are at most those of 'All'.
C25_SlicesConsistent ==
    rpc = "built" =>
        \A i \in 1..Len(CREDENTIALS) :
            LET rows == ui_data[i].rows
                tot(t) == report_summary[t].total[i]
            IN  /\ tot("Region 4") = SumOver(tot, Len(RegionMembers))
                /\ \A n \in 1..Len(SliceRows(i, "Region 4")) :
                      SliceRows(i, "Region 4")[n].County # "Philadelphia"
                /\ tot("Region 4") + tot("Philadelphia")
                      = Cardinality({n \in 1..Len(rows) : rows[n].County \in AllowListed})
                /\ \A t \in Tabs \ {"All", "Region 4"} :
                      /\ tot(t) = Cardinality({n \in 1..Len(rows) : rows[n].County = t})
                      /\ \A n \in 1..Len(SliceRows(i, t)) : SliceRows(i, t)[n].County = t
                /\ \A t \in Tabs :
                      /\ tot(t) <= tot("All")
                      /\ \A k \in 1..Len(months) :
                            /\ report_summary[t].months[k].issued[i]
                                  <= report_summary["All"].months[k].issued[i]
                            /\ report_summary[t].months[k].expired[i]
                                  <= report_summary["All"].months[k].expired[i]

C25_Witness ==
    /\ rpc = "built"
    /\ ui_data[3].rows = DataCRSS
    /\ now = [year |-> 2024, month |-> 10, day |-> 1]
    /\ report_summary["All"].total[3] = 5
    /\ report_summary["Region 4"].total[3] = 3
    /\ report_summary["Philadelphia"].total[3] = 1
    /\ report_summary["Bucks"].total[3] = 1
    /\ report_summary["Chester"].total[3] = 1
    /\ report_summary["Berks"].total[3] = 1
    /\ report_summary["All"].months[2].issued[3] = 4
    /\ report_summary["Region 4"].months[2].issued[3] = 2

(***************************************************************************)
(* The progress signal of a run.                                           *)
(***************************************************************************)
\* a variant that reports the share of the current category only
progress_callback_PerCategory(i, c, t) == (c * 100) \div t

\* lines 636-637: progress.emit(int((idx + c/float(t))/len(CREDENTIALS)*100), 100, ..)
\* for the category at position i of CREDENTIALS (idx = i - 1), page c of t.
\* The quotient is taken in double arithmetic, whose truncation is the floor
\* of the exact quotient for every t below 20.
progress_callback(i, c, t) == (((i - 1) * t + c) * 100) \div (Len(CREDENTIALS) * t)

\* the values x of 0..100 for which the double (x/100)*100 is below x
RoundedDown == {29, 57, 58}

\* set_progress: percent = int((current/total)*100) if total else 0, given to
\* the bar; the worker always passes total = 100
set_progress(current, total) ==
    IF total = 0 THEN 0
    ELSE IF total = 100 /\ current \in RoundedDown THEN current - 1
    ELSE (current * 100) \div total

\* the position of a category in CREDENTIALS
CategoryIndex(tag) == CHOOSE i \in 1..Len(CREDENTIALS) : CREDENTIALS[i] = tag

\* scrape_website lines 77-80: the callback is called once per iteration, with
\* the page number and the page count of the message appended to the log
ProgressCalls == SelectSeq(output_lines, LAMBDA l : l[1] = "Scraping")
ProgressEmitted ==
    [n \in 1..Len(ProgressCalls) |->
        progress_callback(CategoryIndex(ProgressCalls[n][2]), ProgressCalls[n][3],
                          ProgressCalls[n][4])]
ProgressShown ==
    [n \in 1..Len(ProgressEmitted) |-> set_progress(ProgressEmitted[n], 100)]

(***************************************************************************)
(* Specification of the progress of a run: the whole category loop, for    *)
(* any page count of each category and any outcome of each page request.   *)
(***************************************************************************)
NoPagesHref == <<"?">> \o PageParam \o <<"-", "1">>
ProgressTotalResponses ==
    CatTotalResponses \cup {[kind |-> "link", href |-> NoPagesHref]}
ProgressTotalPagesStep == \E resp \in ProgressTotalResponses : W_TotalPages(resp)
ProgressOutcomes ==
    {[kind |-> "fail", rows |-> << >>], [kind |-> "table", rows |-> PageA]}
ProgressPageStep == \E o \in ProgressOutcomes : W_Page(o)

InitG ==
    /\ WindowIdle
    /\ ScrapeIdle
    /\ wpc = "cat"
    /\ idx = 1
    /\ city_county_df = get_city_county_df([ok |-> TRUE, rows |-> CsvGood])
    /\ w_data = EmptyDict
    /\ w_county = EmptyDict
    /\ cooled = FALSE
    /\ cat_requests = 0
    /\ ref_state = "table"
    /\ raised_at = "none"
    /\ done_q = << >>
    /\ run = 1
    /\ btn_disabled = TRUE
    /\ ui_data = EmptyDict
    /\ all_excel_path = None
    /\ county_excel_path = None
    /\ files = EmptyDisk
    /\ files0 = EmptyDisk
    /\ loaded = "false"
NextG == ProgressTotalPagesStep \/ ProgressPageStep \/ W_Return \/ W_Post \/ W_Cooldown
SpecProgress == InitG /\ [][NextG]_vars

(***************************************************************************)
(* Claims about the progress signal (SpecProgress).                        *)
(***************************************************************************)
\* v is the integer part of (category index + page/total) / category count * 100
IntegerPartOfShare(v, l) ==
    LET i == CategoryIndex(l[2]) - 1
        c == l[3]
        t == l[4]
        k == Len(CREDENTIALS)
    IN  /\ v * k * t <= (i * t + c) * 100
        /\ (i * t + c) * 100 < (v + 1) * k * t

\* C21: each emitted percentage is the integer part of (category index +
\* page/total_pages) / category_count * 100; the emitted values, and the
\* values given to the bar, stay within 0..100 and never decrease, and the
\* last page of the last category reports 100.
C21_Progress ==
    LET calls == ProgressCalls
        emitted == ProgressEmitted
        shown == ProgressShown
    IN  /\ \A n \in 1..Len(calls) :
              /\ IntegerPartOfShare(emitted[n], calls[n])
              /\ emitted[n] \in 0..100
              /\ shown[n] \in 0..100
        /\ \A n \in 1..(Len(calls) - 1) :
              /\ emitted[n] <= emitted[n + 1]
              /\ shown[n] <= shown[n + 1]
        /\ \A n \in 1..Len(calls) :
              (calls[n][2] = CREDENTIALS[Len(CREDENTIALS)] /\ calls[n][3] = calls[n][4])
                  => emitted[n] = 100 /\ shown[n] = 100

C21_Witness ==
    /\ wpc = "export1"
    /\ ProgressEmitted = <<16, 33, 44, 55, 66, 77, 88, 100>>
    /\ \E n \in 1..Len(output_lines) : output_lines[n][1] = "Failed"

(***************************************************************************)
(* Claims about the export files handed to the UI (Spec).                  *)
(***************************************************************************)
\* _download_file: `if not file_path or not os.path.exists(file_path)` is
\* false, i.e. the download goes on instead of logging 'File not found'
download_file_finds(file_path) == file_path # None /\ files[file_path].exists

\* the UI handled the done event of a successful run
SuccessHandled ==
    /\ run >= 1
    /\ wpc = "idle"
    /\ done_q = << >>
    /\ raised_at = "none"

\* C23: after a successful run, the two paths handed to scrape_done name
\* files that exist, so each download finds its file.
C23_ExportPathsExist ==
    SuccessHandled =>
        /\ download_file_finds(all_excel_path)
        /\ download_file_finds(county_excel_path)

(***************************************************************************)
(* A later session: the application is closed and constructed again.       *)
(***************************************************************************)
\* the disk as a later session finds it: its files are those of an earlier
\* session
EarlierSession(fs) ==
    [f \in FileNames |-> IF fs[f].exists THEN [fs[f] EXCEPT !.by = 0] ELSE fs[f]]

\* what __init__ (lines 532-535, 544) leaves in all_cred_data, the two paths
\* and the log, and what load_cache returns, on the disk fs
LoadOutcome(fs, okRead, okMeta) ==
    LET nothing == [data |-> EmptyDict, all |-> None, county |-> None]
        read == [data |-> read_pickle(fs[CACHE_PICKLE].body),
                 all |-> IF fs[CACHE_ALL_EXCEL].exists THEN CACHE_ALL_EXCEL ELSE None,
                 county |-> IF fs[CACHE_COUNTY_EXCEL].exists THEN CACHE_COUNTY_EXCEL
                            ELSE None]
    IN  IF ~fs[CACHE_PICKLE].exists
        THEN [mem |-> nothing, lines |-> << >>, ret |-> "false"]
        ELSE IF ~(okRead /\ fs[CACHE_PICKLE].valid)
        THEN [mem |-> nothing, lines |-> << <<"LoadFailed">> >>, ret |-> "false"]
        ELSE IF fs[CACHE_META].exists /\ ~okMeta
        THEN [mem |-> read, lines |-> << <<"Loaded">>, <<"LoadFailed">> >>, ret |-> "false"]
        ELSE [mem |-> read, lines |-> << <<"Loaded">> >>, ret |-> "true"]

\* the window is closed while no worker runs, and the application is started
\* again: __init__ with its call of load_cache
reopen(okRead, okMeta) ==
    /\ wpc = "idle"
    /\ done_q = << >>
    /\ loaded # "pending"
    /\ run >= 1
    /\ run' = 0
    /\ btn_disabled' = FALSE
    /\ files' = EarlierSession(files)
    /\ files0' = files'
    /\ LET r == LoadOutcome(files, okRead, okMeta)
       IN  /\ ui_data' = r.mem.data
           /\ all_excel_path' = r.mem.all
           /\ county_excel_path' = r.mem.county
           /\ output_lines' = r.lines
           /\ loaded' = r.ret
    /\ raised_at' = "none"
    /\ ref_state' = "none"
    /\ cat_requests' = 0
    /\ UNCHANGED <<wpc, done_q, workerLocals, scrapeLocals, windowVars>>

(***************************************************************************)
(* Specification of sessions: the runs of a first session on a disk that   *)
(* starts empty, followed by a later session that loads what they left.    *)
(***************************************************************************)
FirstSession == \A f \in FileNames : files[f].exists => files[f].by >= 1
FirstSessionRun == FirstSession /\ start_scrape
ReopenStep == \E okRead \in BOOLEAN, okMeta \in BOOLEAN : reopen(okRead, okMeta)

InitZ ==
    /\ WindowIdle
    /\ ScrapeIdle
    /\ WorkerIdle
    /\ run = 0
    /\ btn_disabled = FALSE
    /\ files = EmptyDisk
    /\ files0 = files
    /\ loaded = "false"
    /\ ui_data = EmptyDict
    /\ all_excel_path = None
    /\ county_excel_path = None
NextZ ==
    \/ FirstSessionRun
    \/ scrape_done
    \/ GoodRefStep
    \/ OnePageStep
    \/ RunPageStep
    \/ W_Return
    \/ W_Post
    \/ W_Cooldown
    \/ ExportAllStep
    \/ ExportCountyStep
    \/ PickleStep
    \/ MetaStep
    \/ ReplaceAllStep
    \/ ReplaceCountyStep
    \/ W_Emit
    \/ ReopenStep
SpecSession == InitZ /\ [][NextZ]_vars

(***************************************************************************)
(* Claims about the cache round trip (SpecSession).                        *)
(***************************************************************************)
\* the dataset file on disk is the one the session's last run wrote
SavedByLastRun ==
    /\ run >= 1
    /\ files[CACHE_PICKLE].exists
    /\ files[CACHE_PICKLE].valid
    /\ files[CACHE_PICKLE].by = run

\* a later session starts and its load_cache reads the dataset file
LoadsSaved ==
    /\ SavedByLastRun
    /\ run' = 0
    /\ output_lines' # << >>
    /\ output_lines'[1] = <<"Loaded">>

\* C22: the collection a run saved is, in the file, the collection in memory;
\* a later session that loads the file, with no invalidation and no other
\* run in between, holds a collection equal to the saved one for every
\* category key and every record field.
C22_RoundTrip ==
    /\ [](SavedByLastRun => files[CACHE_PICKLE].body = to_pickle(ui_data))
    /\ [][LoadsSaved => ui_data' = ui_data]_vars

C22_Witness ==
    /\ run = 0
    /\ loaded = "true"
    /\ files[CACHE_PICKLE].exists
    /\ files[CACHE_PICKLE].by = 0
    /\ Len(files[CACHE_PICKLE].body) = 2
    /\ ~ui_data[1].has /\ ui_data[2].has /\ ui_data[3].has
    /\ ui_data[2].rows = << >>
    /\ Len(ui_data[3].rows) = 1
    /\ ~files[CACHE_META].exists

(***************************************************************************)
(* Specification of the runs of the application with the scheduling of its *)
(* two threads: the worker thread takes its next step, each request and    *)
(* file operation returning or raising, and the event loop of the UI       *)
(* thread delivers a queued done signal. Every category has one page.      *)
(***************************************************************************)
\* any statement of the try block of scrape_worker raises (line 677)
W_Fault ==
    /\ wpc # "idle"
    /\ Raise
    /\ UNCHANGED <<files, ui_data>>
    /\ FileStepFrame

WorkerStep ==
    \/ LoadRefStep
    \/ OnePageStep
    \/ RunPageStep
    \/ W_Return
    \/ W_Post
    \/ W_Cooldown
    \/ ExportAllStep
    \/ ExportCountyStep
    \/ PickleStep
    \/ MetaStep
    \/ ReplaceAllStep
    \/ ReplaceCountyStep
    \/ W_Emit

NextRuns == start_scrape \/ scrape_done \/ WorkerStep \/ W_Fault
InitRuns == Init /\ files = EmptyDisk
SpecRuns ==
    InitRuns /\ [][NextRuns]_vars /\ WF_vars(WorkerStep) /\ WF_vars(scrape_done)

(***************************************************************************)
(* Claims about the done event and the start control (SpecRuns).           *)
(***************************************************************************)
WorkerStarts == run' = run + 1
WorkerEnds == wpc # "idle" /\ wpc' = "idle"
DoneEmitted == Len(done_q') > Len(done_q)

\* C24: a worker is started only while none is active and none's done event
\* is pending; it emits one done event, as its last step, on every path; the
\* start control is disabled exactly from start_scrape until that event is
\* handled, and it is eventually enabled again.
C24_DoneOnce ==
    /\ [](Len(done_q) <= 1)
    /\ [](done_q # << >> => wpc = "idle")
    /\ [](btn_disabled <=> (wpc # "idle" \/ done_q # << >>))
    /\ [][WorkerStarts =>
            /\ wpc = "idle" /\ done_q = << >>
            /\ ~btn_disabled /\ btn_disabled']_vars
    /\ [][WorkerEnds => done_q' = Append(done_q, done_q'[Len(done_q')])]_vars
    /\ [][DoneEmitted => WorkerEnds]_vars
    /\ (btn_disabled ~> ~btn_disabled)

C24_Witness ==
    /\ run = 1
    /\ ~btn_disabled
    /\ wpc = "idle"
    /\ done_q = << >>
    /\ raised_at = "pages"
    /\ output_lines[Len(output_lines)] = <<"Error">>
    /\ all_excel_path = None

====
